---- MODULE Spec2Model ----
(***************************************************************************)
(* Model of the storage-access control engine (src/app): the access        *)
(* attempt evaluator process_access_attempt, the account lifecycle         *)
(* (register, confirm_email, approve_user, deactivate_user, seed-admin)    *)
(* and the access window registry, over the three tables users,            *)
(* access_windows and access_logs.                                         *)
(*                                                                         *)
(* Rows are records, tables are sequences in primary-key order (the        *)
(* autoincrement key of a row is its index).  Datetimes are integers       *)
(* (ticks); a timezone-aware datetime is a pair of a local reading and a   *)
(* UTC offset.  Columns no modelled operation reads (password_hash,        *)
(* created_at) are left out of the rows.                                   *)
(***************************************************************************)
EXTENDS Integers, Sequences, FiniteSets, TLC

\* ---- bounds of the model ------------------------------------------------
MaxUsers == 2      \* rows in users
MaxTime == 2       \* datetimes of attempts and windows range over 0..MaxTime
MaxClock == 0      \* wall-clock readings of the other handlers range over 0..MaxClock
MaxWindows == 1    \* rows in access_windows (Spec)
MaxLogs == 2       \* rows in access_logs (Spec)
MaxWindowsW == 2   \* rows in access_windows (SpecWindows)
MaxLogsW == 1      \* rows in access_logs (SpecWindows)
MaxWindowsA == 1   \* rows in access_windows (SpecAll)
MaxLogsA == 1      \* rows in access_logs (SpecAll)
MaxWindowsP == 1   \* rows in access_windows (SpecPins)
MaxLogsP == 1      \* rows in access_logs (SpecPins)
PinSpace == 2      \* generate_pin draws from 0..PinSpace-1
MaxOrigins == 0    \* peer addresses an attempt can come from, besides none
MaxCalls == 2      \* access attempts that can be in progress at the same time
MaxLogsC == 2      \* rows in access_logs (SpecConcurrent)

\* ---- values ---------------------------------------------------------------
NULL == -1         \* SQL NULL / Python None in an integer column
NoHash == <<>>     \* NULL in users.pin_hash
NoTz == 99         \* tzinfo of a naive datetime
SeedAdminDays == 3650

Times == 0..MaxTime
ClockReadings == 0..MaxClock
TzOffsets == {NoTz, 0, 1}
Codes == 0..PinSpace - 1        \* codes a caller can enter
Salts == {1}
PinSalts == {1, 2}              \* salts of the PIN hashes in SpecPins
Origins == {NULL} \cup (1..MaxOrigins)   \* ip_address: absent, or a peer address
RawEmails == {"a@x.org", "A@X.org "}
AdminEmail == "admin@example.com"

\* users, access_windows, access_logs: the committed rows of the three tables
\* ret, verdicts: what the last access attempt returned, and every verdict so far
\* calls: the database session of each access attempt in progress
VARIABLES users, access_windows, access_logs, ret, verdicts, calls

vars == <<users, access_windows, access_logs, ret, verdicts, calls>>

\* ---- pure functions --------------------------------------------------------

\* str.lower().strip() on the e-mail addresses of RawEmails
NormalizeEmail(raw) ==
    CASE raw = "a@x.org" -> "a@x.org"
      [] raw = "A@X.org " -> "a@x.org"
      [] OTHER -> raw

\* a datetime is [t |-> local reading, tz |-> UTC offset or NoTz]
DateTimes == {dt \in [t : Times, tz : TzOffsets] : dt.tz = NoTz \/ dt.t - dt.tz \in Times}

Naive(t) == [t |-> t, tz |-> NoTz]

to_utc_naive(dt) == IF dt.tz = NoTz THEN dt ELSE Naive(dt.t - dt.tz)

\* werkzeug's salted one-way hash: injective in (salt, secret)
Digest(salt, secret) == salt * (PinSpace + 1) + secret + 1

generate_password_hash(secret, salt) == <<salt, Digest(salt, secret)>>

\* mutant: hash_pin forgets to return the hash
hash_pin_ReturnsNone(pin, salt) == NoHash

hash_pin(pin, salt) == generate_password_hash(pin, salt)

\* mutant: any secret passes against a stored hash
check_password_hash_AnySecret(pwhash, secret) == pwhash[1] \in Salts

check_password_hash(pwhash, secret) == pwhash[2] = Digest(pwhash[1], secret)

UserIds == 1..Len(users)

email_confirmed(u) == u.email_confirmed_at # NULL

\* mutant: the role is over at the expiry itself
has_admin_access_ExpiresEarly(u, utcnow) ==
    IF u.role # "ADMIN" THEN FALSE
    ELSE IF u.role_expires_at = NULL THEN TRUE
    ELSE u.role_expires_at > utcnow

\* utcnow: what datetime.utcnow() reads during the call
has_admin_access(u, utcnow) ==
    IF u.role # "ADMIN" THEN FALSE
    ELSE IF u.role_expires_at = NULL THEN TRUE
    ELSE u.role_expires_at >= utcnow

EmailTaken(email) == \E i \in UserIds : users[i].email = email

NewUser(email, status, role, expires, confirmed) ==
    [email |-> email, status |-> status, role |-> role, role_expires_at |-> expires,
     pin_hash |-> NoHash, email_confirmed_at |-> confirmed,
     failed_pin_attempts |-> 0, last_failed_at |-> NULL]

\* mutant: the result is stored in the reason column too
AccessLog_ReasonIsResult(user_id, result, reason, ip_address, ts) ==
    [user_id |-> user_id, result |-> result, reason |-> result,
     ip_address |-> ip_address, timestamp |-> ts]

AccessLog(user_id, result, reason, ip_address, ts) ==
    [user_id |-> user_id, result |-> result, reason |-> reason,
     ip_address |-> ip_address, timestamp |-> ts]

\* the last call of process_access_attempt: its arguments (the time as UTC
\* ticks) and the pair it returned
Ret(user_id, entered_code, current_time, ok, message) ==
    [user_id |-> user_id, entered_code |-> entered_code, current_time |-> current_time,
     ok |-> ok, message |-> message]

CallIds == 1..MaxCalls

\* the session of a call that is not in progress: nothing loaded, nothing pending
NoCall ==
    [pc |-> "idle", user_id |-> NULL, entered_code |-> NULL, current_time |-> NULL,
     ip_address |-> NULL, user |-> <<>>, dirty |-> {}, new |-> <<>>,
     ok |-> FALSE, message |-> ""]

Init ==
    /\ users = <<>>
    /\ access_windows = <<>>
    /\ access_logs = <<>>
    /\ ret = Ret(NULL, NULL, NULL, FALSE, "")
    /\ verdicts = <<>>
    /\ calls = [c \in CallIds |-> NoCall]

\* ---- the access attempt evaluator ----------------------------------------

\* mutant: an attempt that names no account is not logged
log_attempt_SkipsUnknown(user_id, result, reason, ip_address, ts) ==
    IF user_id = NULL THEN access_logs
    ELSE Append(access_logs, AccessLog(user_id, result, reason, ip_address, to_utc_naive(ts).t))

\* mutant: every attempt is logged as a denial
log_attempt_AlwaysDeny(user_id, result, reason, ip_address, ts) ==
    Append(access_logs, AccessLog(user_id, "DENY", reason, ip_address, to_utc_naive(ts).t))

log_attempt(user_id, result, reason, ip_address, ts) ==
    Append(access_logs, AccessLog(user_id, result, reason, ip_address, to_utc_naive(ts).t))

\* mutant: the gate forgets the status
LifecycleOk_ConfirmedOnly(user) == email_confirmed(user)

\* the lifecycle gate: the negation of the test at security.py:41
LifecycleOk(user) == user.status = "ACTIVE" /\ email_confirmed(user)

\* mutant: an account with a recorded failure is locked out
PinOk_LocksOut(user, entered_code) ==
    /\ user.failed_pin_attempts = 0
    /\ user.pin_hash # NoHash
    /\ check_password_hash(user.pin_hash, entered_code)

\* the secret check: the negation of the test at security.py:46
PinOk(user, entered_code) ==
    user.pin_hash # NoHash /\ check_password_hash(user.pin_hash, entered_code)

\* mutant: the query forgets the filter on user_id
active_window_AnyUser(user_id, current_time) ==
    {w \in 1..Len(access_windows) :
        /\ access_windows[w].start_time <= current_time
        /\ access_windows[w].end_time >= current_time}

\* the rows the active_window query selects; .first() is a row iff this is non-empty
active_window(user_id, current_time) ==
    {w \in 1..Len(access_windows) :
        /\ access_windows[w].user_id = user_id
        /\ access_windows[w].start_time <= current_time
        /\ access_windows[w].end_time >= current_time}

\* mutant: count() >= 0, so no window at all counts as having windows
has_any_window_OffByOne(user_id) ==
    Cardinality({w \in 1..Len(access_windows) : access_windows[w].user_id = user_id}) >= 0

has_any_window(user_id) ==
    Cardinality({w \in 1..Len(access_windows) : access_windows[w].user_id = user_id}) > 0

\* mutant: a failed secret check also deactivates the account
record_pin_failure_Deactivates(user_id, current_time) ==
    [users EXCEPT ![user_id].failed_pin_attempts = @ + 1,
                  ![user_id].last_failed_at = current_time.t,
                  ![user_id].status = "INACTIVE"]

\* mutant: the failure is counted but not dated
record_pin_failure_NoDate(user_id, current_time) ==
    [users EXCEPT ![user_id].failed_pin_attempts = @ + 1]

\* security.py:47-48, the writes of a failed secret check
record_pin_failure(user_id, current_time) ==
    [users EXCEPT ![user_id].failed_pin_attempts = @ + 1,
                  ![user_id].last_failed_at = current_time.t]

\* mutant: a grant leaves the counter alone
reset_failed_attempts_Keeps(user_id) == users

\* security.py:69, the write of a grant
reset_failed_attempts(user_id) ==
    [users EXCEPT ![user_id].failed_pin_attempts = 0]

\* db.session.get(User, user_id) if user_id is not None else None: a row is found
user_found(user_id) == user_id # NULL /\ user_id \in UserIds

Returns(user_id, entered_code, current_time, ok, message) ==
    /\ ret' = Ret(user_id, entered_code, current_time.t, ok, message)
    /\ verdicts' = Append(verdicts, ok)

\* the whole call in one step: no other request runs between its statements
process_access_attempt(user_id, entered_code, current_time_arg, ip_address) ==
    LET current_time == to_utc_naive(current_time_arg)
    IN  /\ UNCHANGED <<access_windows, calls>>
        /\ IF ~user_found(user_id) THEN
               /\ access_logs' = log_attempt(NULL, "DENY", "USER_NOT_FOUND", ip_address, current_time)
               /\ users' = users
               /\ Returns(user_id, entered_code, current_time, FALSE, "User not found")
           ELSE IF ~LifecycleOk(users[user_id]) THEN
               /\ access_logs' = log_attempt(user_id, "DENY", "USER_INACTIVE", ip_address, current_time)
               /\ users' = users
               /\ Returns(user_id, entered_code, current_time, FALSE, "Account is inactive")
           ELSE IF ~PinOk(users[user_id], entered_code) THEN
               /\ users' = record_pin_failure(user_id, current_time)
               /\ access_logs' = log_attempt(user_id, "DENY", "WRONG_PIN", ip_address, current_time)
               /\ Returns(user_id, entered_code, current_time, FALSE, "Invalid PIN")
           ELSE IF has_any_window(user_id) /\ active_window(user_id, current_time.t) = {} THEN
               /\ access_logs' = log_attempt(user_id, "DENY", "OUTSIDE_ACCESS_WINDOW", ip_address, current_time)
               /\ users' = users
               /\ Returns(user_id, entered_code, current_time, FALSE, "Outside permitted access window")
           ELSE
               /\ users' = reset_failed_attempts(user_id)
               /\ access_logs' = log_attempt(user_id, "GRANT", "ACCESS_GRANTED", ip_address, current_time)
               /\ Returns(user_id, entered_code, current_time, TRUE, "Access granted")

\* ids a caller can name: none, a row's, or one past the last possible row
EvalIds == {NULL} \cup (1..MaxUsers + 1)

\* cap: the number of rows the model lets access_logs grow to
Evaluate(cap) ==
    \E user_id \in EvalIds, entered_code \in Codes,
       current_time \in DateTimes, ip_address \in Origins :
        /\ Len(access_logs) < cap
        /\ process_access_attempt(user_id, entered_code, current_time, ip_address)

\* ---- the access attempt, statement by statement ----------------------------
\* Each request works in a database session of its own: session.get loads a
\* copy of the row, assignments change the copy, session.add keeps the new
\* row pending, and commit writes the changed columns and the pending rows in
\* one transaction.  Requests of other sessions can commit in between.

\* the columns of the loaded row whose assigned value differs from the loaded
\* one: those are what the UPDATE of the flush sets
Dirty(user, writes) == {w \in writes : user[w[1]] # w[2]}

Written(dirty, column, stored) ==
    IF \E w \in dirty : w[1] = column
    THEN (CHOOSE w \in dirty : w[1] = column)[2]
    ELSE stored

\* the stored row after the UPDATE
flush(row, dirty) ==
    [row EXCEPT !.failed_pin_attempts = Written(dirty, "failed_pin_attempts", @),
                !.last_failed_at = Written(dirty, "last_failed_at", @)]

\* the session after the statements up to log_attempt
Decided(session, dirty, log, ok, message) ==
    [session EXCEPT !.pc = "decided", !.dirty = dirty, !.new = <<log>>,
                    !.ok = ok, !.message = message]

\* the call starts and loads the row of user_id
fetch(c, user_id, entered_code, current_time_arg, ip_address) ==
    /\ calls[c].pc = "idle"
    /\ calls' = [calls EXCEPT ![c] =
           [NoCall EXCEPT !.pc = "fetched",
                          !.user_id = user_id,
                          !.entered_code = entered_code,
                          !.current_time = to_utc_naive(current_time_arg).t,
                          !.ip_address = ip_address,
                          !.user = IF user_found(user_id) THEN <<users[user_id]>>
                                   ELSE <<>>]]
    /\ UNCHANGED <<users, access_windows, access_logs, ret, verdicts>>

\* the tests on the loaded row, the two window queries on the stored windows,
\* the assignments to the loaded row and log_attempt
decide(c) ==
    LET session == calls[c]
        user_id == session.user_id
        t == session.current_time
        ip_address == session.ip_address
    IN  /\ session.pc = "fetched"
        /\ calls' = [calls EXCEPT ![c] =
               IF session.user = <<>> THEN
                   Decided(session, {},
                           AccessLog(NULL, "DENY", "USER_NOT_FOUND", ip_address, t),
                           FALSE, "User not found")
               ELSE IF ~LifecycleOk(session.user[1]) THEN
                   Decided(session, {},
                           AccessLog(user_id, "DENY", "USER_INACTIVE", ip_address, t),
                           FALSE, "Account is inactive")
               ELSE IF ~PinOk(session.user[1], session.entered_code) THEN
                   Decided(session,
                           Dirty(session.user[1],
                                 {<<"failed_pin_attempts",
                                    session.user[1].failed_pin_attempts + 1>>,
                                  <<"last_failed_at", t>>}),
                           AccessLog(user_id, "DENY", "WRONG_PIN", ip_address, t),
                           FALSE, "Invalid PIN")
               ELSE IF has_any_window(user_id) /\ active_window(user_id, t) = {} THEN
                   Decided(session, {},
                           AccessLog(user_id, "DENY", "OUTSIDE_ACCESS_WINDOW", ip_address, t),
                           FALSE, "Outside permitted access window")
               ELSE
                   Decided(session,
                           Dirty(session.user[1], {<<"failed_pin_attempts", 0>>}),
                           AccessLog(user_id, "GRANT", "ACCESS_GRANTED", ip_address, t),
                           TRUE, "Access granted")]
        /\ UNCHANGED <<users, access_windows, access_logs, ret, verdicts>>

\* mutant: the UPDATE of the flush stays when the transaction fails
commit_KeepsFlushed(c, commit_ok) ==
    LET session == calls[c]
    IN  /\ session.pc = "decided"
        /\ calls' = [calls EXCEPT ![c] = NoCall]
        /\ UNCHANGED access_windows
        /\ users' = IF session.user = <<>> THEN users
                    ELSE [users EXCEPT ![session.user_id] = flush(@, session.dirty)]
        /\ IF commit_ok THEN
               /\ access_logs' = access_logs \o session.new
               /\ ret' = Ret(session.user_id, session.entered_code, session.current_time,
                             session.ok, session.message)
               /\ verdicts' = Append(verdicts, session.ok)
           ELSE
               UNCHANGED <<access_logs, ret, verdicts>>
\* mutant: the pending row is dropped when the stored row is no longer the
\* loaded one
commit_DropsOnConflict(c, commit_ok) ==
    LET session == calls[c]
        stale == session.user # <<>> /\ users[session.user_id] # session.user[1]
    IN  /\ session.pc = "decided"
        /\ calls' = [calls EXCEPT ![c] = NoCall]
        /\ UNCHANGED access_windows
        /\ IF commit_ok THEN
               /\ users' = IF session.user = <<>> THEN users
                           ELSE [users EXCEPT ![session.user_id] = flush(@, session.dirty)]
               /\ access_logs' = IF stale THEN access_logs ELSE access_logs \o session.new
               /\ ret' = Ret(session.user_id, session.entered_code, session.current_time,
                             session.ok, session.message)
               /\ verdicts' = Append(verdicts, session.ok)
           ELSE
               UNCHANGED <<users, access_logs, ret, verdicts>>
\* db.session.commit() and the return; commit_ok: the database accepts the
\* transaction.  When it does not, the transaction is rolled back and the
\* exception ends the call.
commit(c, commit_ok) ==
    LET session == calls[c]
    IN  /\ session.pc = "decided"
        /\ calls' = [calls EXCEPT ![c] = NoCall]
        /\ UNCHANGED access_windows
        /\ IF commit_ok THEN
               /\ users' = IF session.user = <<>> THEN users
                           ELSE [users EXCEPT ![session.user_id] = flush(@, session.dirty)]
               /\ access_logs' = access_logs \o session.new
               /\ ret' = Ret(session.user_id, session.entered_code, session.current_time,
                             session.ok, session.message)
               /\ verdicts' = Append(verdicts, session.ok)
           ELSE
               UNCHANGED <<users, access_logs, ret, verdicts>>

InProgress == {c \in CallIds : calls[c].pc # "idle"}

\* cap: the number of rows the model lets access_logs grow to
\* times: the datetimes the callers pass
BeginAttempt(cap, times) ==
    \E c \in CallIds, user_id \in EvalIds, entered_code \in Codes,
       current_time \in times, ip_address \in Origins :
        /\ Len(access_logs) + Cardinality(InProgress) < cap
        /\ fetch(c, user_id, entered_code, current_time, ip_address)

DecideAttempt == \E c \in CallIds : decide(c)

CommitAttempt == \E c \in CallIds, commit_ok \in BOOLEAN : commit(c, commit_ok)

\* ---- account lifecycle -----------------------------------------------------
\* Every handler that reads the wall clock takes the reading, utcnow, as an
\* input: datetime.utcnow() is whatever the host clock says during the call.

\* a request that is not an access attempt leaves the evaluator's record alone
NoAttempt == UNCHANGED <<ret, verdicts, calls>>

register(raw_email) ==
    LET email == NormalizeEmail(raw_email)
    IN  /\ UNCHANGED <<access_windows, access_logs>>
        /\ IF EmailTaken(email) THEN
               \* the unique index on users.email refuses the INSERT at commit
               /\ users' = users
               /\ NoAttempt
           ELSE
               /\ Len(users) < MaxUsers
               /\ users' = Append(users, NewUser(email, "INACTIVE", "USER", NULL, NULL))
               /\ NoAttempt

\* the answer of the 500 handler, given to a request that raised
internal == [status |-> 500, message |-> "An unexpected error occurred."]

\* what the registration request answers: the commit of a second row with a
\* stored email raises IntegrityError, which no code of the request catches
register_response(raw_email) ==
    IF EmailTaken(NormalizeEmail(raw_email))
    THEN internal
    ELSE [status |-> 302, message |-> "Registration successful."]
RegisterAccount == \E raw_email \in RawEmails : register(raw_email)

seed_admin(utcnow) ==
    /\ UNCHANGED <<access_windows, access_logs>>
    /\ IF EmailTaken(AdminEmail) THEN
           /\ users' = users
           /\ NoAttempt
       ELSE
           /\ Len(users) < MaxUsers
           /\ users' = Append(users, NewUser(AdminEmail, "ACTIVE", "ADMIN",
                                             utcnow + SeedAdminDays, utcnow))
           /\ NoAttempt

SeedAdmin == \E utcnow \in ClockReadings : seed_admin(utcnow)

\* token_valid: the serializer accepts the token (signature good, age within a day)
confirm_email_Restamps(email, token_valid, utcnow) ==
    LET found == {i \in UserIds : users[i].email = email}
    IN  /\ UNCHANGED <<access_windows, access_logs>>
        /\ IF ~token_valid \/ found = {} THEN
               /\ users' = users
               /\ NoAttempt
           ELSE LET user_id == CHOOSE i \in found : TRUE
                IN  /\ users' = [users EXCEPT ![user_id].email_confirmed_at = utcnow]
                    /\ NoAttempt
confirm_email(email, token_valid, utcnow) ==
    LET found == {i \in UserIds : users[i].email = email}
    IN  /\ UNCHANGED <<access_windows, access_logs>>
        /\ IF ~token_valid THEN
               /\ users' = users
               /\ NoAttempt
           ELSE IF found = {} THEN
               /\ users' = users
               /\ NoAttempt
           ELSE LET user_id == CHOOSE i \in found : TRUE
                IN  IF email_confirmed(users[user_id]) THEN
                        /\ users' = users
                        /\ NoAttempt
                    ELSE
                        /\ users' = [users EXCEPT ![user_id].email_confirmed_at = utcnow]
                        /\ NoAttempt

\* the category of the message flashed by the confirmation request
confirm_email_flash(email, token_valid) ==
    LET found == {i \in UserIds : users[i].email = email}
    IN  IF ~token_valid THEN "danger"
        ELSE IF found = {} THEN "danger"
        ELSE IF email_confirmed(users[CHOOSE i \in found : TRUE]) THEN "info"
        ELSE "success"
ConfirmEmail ==
    \E raw_email \in RawEmails, token_valid \in BOOLEAN, utcnow \in ClockReadings :
        confirm_email(NormalizeEmail(raw_email), token_valid, utcnow)

\* confirmation requests arriving at any of the given clock readings
ConfirmEmailAt(clock) ==
    \E raw_email \in RawEmails, token_valid \in BOOLEAN, utcnow \in clock :
        confirm_email(NormalizeEmail(raw_email), token_valid, utcnow)
\* ---- administrator operations ----------------------------------------------

\* who can hold a session: nobody (NULL) or an account that could log in
Requesters == {NULL} \cup {i \in UserIds : email_confirmed(users[i])}

\* mutant: the role alone decides, an expiry in the past is not looked at
admin_required_IgnoresExpiry(current_user, utcnow) ==
    current_user # NULL /\ users[current_user].role = "ADMIN"
admin_required(current_user, utcnow) ==
    current_user # NULL /\ has_admin_access(users[current_user], utcnow)

\* abort(403), and get_or_404 on a missing row: the request ends, nothing is written
Aborts == UNCHANGED <<users, access_windows, access_logs>> /\ NoAttempt

\* mutant: approval does not look at the e-mail confirmation
approve_user_SkipsConfirmation(current_user, utcnow, user_id, raw_pin, salt) ==
    IF ~admin_required(current_user, utcnow) THEN Aborts
    ELSE IF user_id \notin UserIds THEN Aborts
    ELSE /\ UNCHANGED <<access_windows, access_logs>>
         /\ users' = [users EXCEPT ![user_id].status = "ACTIVE",
                                   ![user_id].pin_hash = hash_pin(raw_pin, salt)]
         /\ NoAttempt

\* mutant: approval also resets the failure counter
approve_user_ResetsCounter(current_user, utcnow, user_id, raw_pin, salt) ==
    IF ~admin_required(current_user, utcnow) THEN Aborts
    ELSE IF user_id \notin UserIds THEN Aborts
    ELSE /\ UNCHANGED <<access_windows, access_logs>>
         /\ IF ~email_confirmed(users[user_id]) THEN
                /\ users' = users
                /\ NoAttempt
            ELSE
                /\ users' = [users EXCEPT ![user_id].status = "ACTIVE",
                                          ![user_id].pin_hash = hash_pin(raw_pin, salt),
                                          ![user_id].failed_pin_attempts = 0]
                /\ NoAttempt
approve_user(current_user, utcnow, user_id, raw_pin, salt) ==
    IF ~admin_required(current_user, utcnow) THEN Aborts
    ELSE IF user_id \notin UserIds THEN Aborts
    ELSE /\ UNCHANGED <<access_windows, access_logs>>
         /\ IF ~email_confirmed(users[user_id]) THEN
                /\ users' = users
                /\ NoAttempt
            ELSE
                /\ users' = [users EXCEPT ![user_id].status = "ACTIVE",
                                          ![user_id].pin_hash = hash_pin(raw_pin, salt)]
                /\ NoAttempt

ApproveAccount ==
    \E current_user \in Requesters, utcnow \in ClockReadings, user_id \in 1..MaxUsers,
       raw_pin \in 0..PinSpace - 1, salt \in Salts :
        approve_user(current_user, utcnow, user_id, raw_pin, salt)

\* salts: the salts generate_password_hash can draw
ApproveAccountSalted(salts) ==
    \E current_user \in Requesters, utcnow \in ClockReadings, user_id \in 1..MaxUsers,
       raw_pin \in 0..PinSpace - 1, salt \in salts :
        approve_user(current_user, utcnow, user_id, raw_pin, salt)

\* mutant: deactivation also takes the PIN away
deactivate_user_ClearsPin(current_user, utcnow, user_id) ==
    IF ~admin_required(current_user, utcnow) THEN Aborts
    ELSE IF user_id \notin UserIds THEN Aborts
    ELSE /\ UNCHANGED <<access_windows, access_logs>>
         /\ users' = [users EXCEPT ![user_id].status = "INACTIVE",
                                   ![user_id].pin_hash = NoHash]
         /\ NoAttempt

deactivate_user(current_user, utcnow, user_id) ==
    IF ~admin_required(current_user, utcnow) THEN Aborts
    ELSE IF user_id \notin UserIds THEN Aborts
    ELSE /\ UNCHANGED <<access_windows, access_logs>>
         /\ users' = [users EXCEPT ![user_id].status = "INACTIVE"]
         /\ NoAttempt

DeactivateAccount ==
    \E current_user \in Requesters, utcnow \in ClockReadings, user_id \in 1..MaxUsers :
        deactivate_user(current_user, utcnow, user_id)

AccessWindow(user_id, start_time, end_time) ==
    [user_id |-> user_id, start_time |-> start_time, end_time |-> end_time]

\* mutant: only an end before the start is refused
windows_AllowsEmpty(current_user, utcnow, user_id, start, end) ==
    IF ~admin_required(current_user, utcnow) THEN Aborts
    ELSE /\ UNCHANGED <<users, access_logs>>
         /\ IF user_id \notin UserIds \/ end < start THEN
                /\ access_windows' = access_windows
                /\ NoAttempt
            ELSE
                /\ access_windows' = Append(access_windows, AccessWindow(user_id, start, end))
                /\ NoAttempt
\* mutant: the windows of the named principal are deleted before the INSERT
windows_ReplacesOwn(current_user, utcnow, user_id, start, end) ==
    IF ~admin_required(current_user, utcnow) THEN Aborts
    ELSE /\ UNCHANGED <<users, access_logs>>
         /\ IF user_id \notin UserIds \/ end <= start THEN
                /\ access_windows' = access_windows
                /\ NoAttempt
            ELSE
                /\ access_windows' =
                       Append(SelectSeq(access_windows, LAMBDA w : w.user_id # user_id),
                              AccessWindow(user_id, start, end))
                /\ NoAttempt
\* POST /admin/windows
windows(current_user, utcnow, user_id, start, end) ==
    IF ~admin_required(current_user, utcnow) THEN Aborts
    ELSE /\ UNCHANGED <<users, access_logs>>
         /\ IF user_id \notin UserIds \/ end <= start THEN
                \* the form does not validate: unknown choice, or validate_end_time
                /\ access_windows' = access_windows
                /\ NoAttempt
            ELSE
                /\ access_windows' = Append(access_windows, AccessWindow(user_id, start, end))
                /\ NoAttempt

\* cap: the number of rows the model lets access_windows grow to
AddAccessWindow(cap) ==
    \E current_user \in Requesters, utcnow \in ClockReadings, user_id \in 1..MaxUsers,
       start \in Times, end \in Times :
        /\ Len(access_windows) < cap
        /\ windows(current_user, utcnow, user_id, start, end)

\* mutant: an expiry equal to the clock reading passes the validation
validate_role_expires_at_AllowsNow(role_expires_at, utcnow) ==
    role_expires_at # NULL /\ ~(role_expires_at < utcnow)

\* mutant: the field may be left empty
validate_role_expires_at_AllowsMissing(role_expires_at, utcnow) ==
    role_expires_at = NULL \/ ~(role_expires_at <= utcnow)
\* TempAdminForm.validate_role_expires_at under DataRequired: the field is
\* there and is later than the clock reading of the validation
validate_role_expires_at(role_expires_at, utcnow) ==
    role_expires_at # NULL /\ ~(role_expires_at <= utcnow)

\* POST /admin/users/<user_id>/set-temp-admin; utcnow is the clock reading of
\* the admin gate, validated_at the later one of the form validation
set_temp_admin(current_user, utcnow, user_id, role_expires_at, validated_at) ==
    IF ~admin_required(current_user, utcnow) THEN Aborts
    ELSE IF user_id \notin UserIds THEN Aborts
    ELSE /\ UNCHANGED <<access_windows, access_logs>>
         /\ IF validate_role_expires_at(role_expires_at, validated_at) THEN
                /\ users' = [users EXCEPT ![user_id].role = "ADMIN",
                                          ![user_id].role_expires_at = role_expires_at]
                /\ NoAttempt
            ELSE
                /\ users' = users
                /\ NoAttempt

\* expiry datetimes an administrator can post: none, or a time
Expiries == {NULL} \cup Times

SetTempAdmin ==
    \E current_user \in Requesters, utcnow \in Times, user_id \in 1..MaxUsers,
       role_expires_at \in Expiries, validated_at \in Times :
        /\ validated_at \in {utcnow, utcnow + 1}
        /\ set_temp_admin(current_user, utcnow, user_id, role_expires_at, validated_at)

\* mutant: clearing resets the role and leaves the expiry
clear_admin_KeepsExpiry(current_user, utcnow, user_id) ==
    IF ~admin_required(current_user, utcnow) THEN Aborts
    ELSE IF user_id \notin UserIds THEN Aborts
    ELSE /\ UNCHANGED <<access_windows, access_logs>>
         /\ users' = [users EXCEPT ![user_id].role = "USER"]
         /\ NoAttempt

\* POST /admin/users/<user_id>/clear-admin
clear_admin(current_user, utcnow, user_id) ==
    IF ~admin_required(current_user, utcnow) THEN Aborts
    ELSE IF user_id \notin UserIds THEN Aborts
    ELSE /\ UNCHANGED <<access_windows, access_logs>>
         /\ users' = [users EXCEPT ![user_id].role = "USER",
                                   ![user_id].role_expires_at = NULL]
         /\ NoAttempt

ClearAdmin ==
    \E current_user \in Requesters, utcnow \in Times, user_id \in 1..MaxUsers :
        clear_admin(current_user, utcnow, user_id)

\* mutant: the log view purges the rows it has shown
logs_Purges(current_user, utcnow) ==
    IF ~admin_required(current_user, utcnow) THEN Aborts
    ELSE UNCHANGED <<users, access_windows>> /\ access_logs' = <<>> /\ NoAttempt

\* GET /admin/logs: filters and reads access_logs, writes nothing
logs(current_user, utcnow) ==
    IF ~admin_required(current_user, utcnow) THEN Aborts
    ELSE UNCHANGED <<users, access_windows, access_logs>> /\ NoAttempt

ViewLogs == \E current_user \in Requesters, utcnow \in Times : logs(current_user, utcnow)

\* the answer of the 403 handler, given to a request that called abort(403)
forbidden == [status |-> 403, message |-> "Forbidden"]

\* what the blueprint's before_request hook answers: without a status of
\* its own the request goes on to its view
enforce_admin(current_user, utcnow) ==
    IF admin_required(current_user, utcnow)
    THEN [status |-> NULL, message |-> ""]
    ELSE forbidden

\* GET /admin/dashboard: two counts, rendered
dashboard(current_user, utcnow) ==
    IF ~admin_required(current_user, utcnow) THEN Aborts
    ELSE UNCHANGED <<users, access_windows, access_logs>> /\ NoAttempt

AdminDashboard ==
    \E current_user \in Requesters, utcnow \in Times : dashboard(current_user, utcnow)

\* GET /user/<user_id>/history: it reads and writes no row
forbidden_user_history(current_user, user_id) ==
    UNCHANGED <<users, access_windows, access_logs>> /\ NoAttempt

\* its answer: login_required sends a requester without a session to the
\* login view; any other id than the requester's own is forbidden
forbidden_user_history_response(current_user, user_id) ==
    IF current_user = NULL THEN [status |-> 302, message |-> "auth.login"]
    ELSE IF user_id # current_user THEN forbidden
    ELSE [status |-> 302, message |-> "main.my_history"]

UserHistory ==
    \E current_user \in Requesters, user_id \in 1..MaxUsers :
        forbidden_user_history(current_user, user_id)
Next ==
    \/ RegisterAccount
    \/ SeedAdmin
    \/ ConfirmEmail
    \/ ApproveAccount
    \/ DeactivateAccount
    \/ AddAccessWindow(MaxWindows)
    \/ Evaluate(MaxLogs)

Spec == Init /\ [][Next]_vars

\* the same operations, with room for more windows and fewer attempts
NextWindows ==
    \/ RegisterAccount
    \/ SeedAdmin
    \/ ConfirmEmail
    \/ ApproveAccount
    \/ DeactivateAccount
    \/ AddAccessWindow(MaxWindowsW)
    \/ Evaluate(MaxLogsW)

SpecWindows == Init /\ [][NextWindows]_vars

\* every operation of the application
NextAll ==
    \/ RegisterAccount
    \/ SeedAdmin
    \/ ConfirmEmail
    \/ ApproveAccount
    \/ DeactivateAccount
    \/ SetTempAdmin
    \/ ClearAdmin
    \/ ViewLogs
    \/ AddAccessWindow(MaxWindowsA)
    \/ Evaluate(MaxLogsA)

SpecAll == Init /\ [][NextAll]_vars

\* the operations on accounts and on the administrator role
NextRoles ==
    \/ RegisterAccount
    \/ SeedAdmin
    \/ ConfirmEmail
    \/ ApproveAccount
    \/ DeactivateAccount
    \/ SetTempAdmin
    \/ ClearAdmin

SpecRoles == Init /\ [][NextRoles]_vars

\* the account lifecycle and the evaluator, with approval hashing under
\* more than one salt
NextPins ==
    \/ RegisterAccount
    \/ SeedAdmin
    \/ ConfirmEmail
    \/ ApproveAccountSalted(PinSalts)
    \/ DeactivateAccount
    \/ AddAccessWindow(MaxWindowsP)
    \/ Evaluate(MaxLogsP)

SpecPins == Init /\ [][NextPins]_vars

\* the account lifecycle alone, with confirmations at different times
NextAccounts ==
    \/ RegisterAccount
    \/ SeedAdmin
    \/ ConfirmEmailAt(Times)
    \/ ApproveAccountSalted(PinSalts)
    \/ DeactivateAccount

SpecAccounts == Init /\ [][NextAccounts]_vars
\* every administrator route and the history route, beside the account lifecycle
NextAdmin ==
    \/ RegisterAccount
    \/ SeedAdmin
    \/ ConfirmEmail
    \/ ApproveAccount
    \/ DeactivateAccount
    \/ SetTempAdmin
    \/ ClearAdmin
    \/ AddAccessWindow(MaxWindowsA)
    \/ ViewLogs
    \/ AdminDashboard
    \/ UserHistory

SpecAdmin == Init /\ [][NextAdmin]_vars
\* access attempts of several sessions, interleaved with each other and with
\* the account lifecycle
NextConcurrent ==
    \/ RegisterAccount
    \/ SeedAdmin
    \/ ConfirmEmail
    \/ ApproveAccount
    \/ DeactivateAccount
    \/ BeginAttempt(MaxLogsC, {Naive(t) : t \in ClockReadings})
    \/ DecideAttempt
    \/ CommitAttempt

SpecConcurrent == Init /\ [][NextConcurrent]_vars

\* ---- properties ------------------------------------------------------------

LastLog == access_logs[Len(access_logs)]

\* the row a step appended to access_logs
NewLog == access_logs'[Len(access_logs')]

\* a step appended exactly one row to access_logs and kept the rows before it
AppendsOneLog ==
    /\ Len(access_logs') = Len(access_logs) + 1
    /\ \A i \in 1..Len(access_logs) : access_logs'[i] = access_logs[i]

\* a step is a call of process_access_attempt: it returns, and only it does
Attempted == verdicts' # verdicts

\* C1: an access attempt is granted (returns True, logs GRANT) only if the
\* principal exists, is ACTIVE, has its e-mail confirmed and the presented PIN
\* matches its non-null pin_hash at the time of the call; and a row of the
\* audit log is only ever written by an access attempt.
C1_GrantOnlyWhenAllChecksPass ==
    [][/\ access_logs' # access_logs => Attempted /\ AppendsOneLog
       /\ (Attempted /\ (ret'.ok \/ NewLog.result = "GRANT"))
            => /\ ret'.user_id \in 1..Len(users)
               /\ users[ret'.user_id].status = "ACTIVE"
               /\ users[ret'.user_id].email_confirmed_at # NULL
               /\ users[ret'.user_id].pin_hash # NoHash
               /\ users[ret'.user_id].pin_hash
                    = hash_pin(ret'.entered_code, users[ret'.user_id].pin_hash[1])
               /\ ret'.ok
               /\ NewLog.result = "GRANT"
               /\ NewLog.user_id = ret'.user_id]_vars

\* a grant has just been returned and logged for an approved principal
C1_Witness ==
    /\ Len(access_logs) > 0
    /\ ret.ok
    /\ LastLog.result = "GRANT"
    /\ LastLog.user_id = ret.user_id
    /\ users[ret.user_id].status = "ACTIVE"
    /\ users[ret.user_id].email_confirmed_at # NULL
    /\ users[ret.user_id].pin_hash = hash_pin(ret.entered_code, users[ret.user_id].pin_hash[1])
    /\ users[ret.user_id].role = "USER"

\* what a claim says of the principal an attempt names, read before the call
Exists(user_id) == user_id \in 1..Len(users)

PassesLifecycle(user_id) ==
    users[user_id].status = "ACTIVE" /\ users[user_id].email_confirmed_at # NULL

PresentsRightPin(user_id, entered_code) ==
    /\ users[user_id].pin_hash # NoHash
    /\ users[user_id].pin_hash = hash_pin(entered_code, users[user_id].pin_hash[1])

WindowsOf(user_id) ==
    {w \in 1..Len(access_windows) : access_windows[w].user_id = user_id}

\* C2: the earliest failing step decides: an unknown id is denied as such; a
\* principal that is not ACTIVE or not confirmed is denied at the lifecycle
\* gate whatever the PIN and the windows, with its row (counters included)
\* untouched; a wrong PIN is denied as a PIN failure, counter incremented,
\* whatever the windows (so also outside every window).
C2_EarliestFailingStepDecides ==
    [][Attempted =>
        LET user_id == ret'.user_id
        IN  /\ ~Exists(user_id) => ~ret'.ok /\ ret'.message = "User not found"
            /\ (Exists(user_id) /\ ~PassesLifecycle(user_id))
                 => /\ ~ret'.ok
                    /\ ret'.message = "Account is inactive"
                    /\ NewLog.result = "DENY"
                    /\ NewLog.reason = "USER_INACTIVE"
                    /\ users' = users
            /\ (Exists(user_id) /\ PassesLifecycle(user_id)
                  /\ ~PresentsRightPin(user_id, ret'.entered_code))
                 => /\ ~ret'.ok
                    /\ ret'.message = "Invalid PIN"
                    /\ NewLog.result = "DENY"
                    /\ NewLog.reason = "WRONG_PIN"
                    /\ users'[user_id].failed_pin_attempts
                         = users[user_id].failed_pin_attempts + 1]_vars

\* a wrong PIN outside the principal's window was counted, and then, once
\* deactivated, the right PIN inside the window is denied at the lifecycle
\* gate and the counters stay as they were
C2_Witness ==
    /\ Len(access_logs) = 2
    /\ access_logs[1].reason = "WRONG_PIN"
    /\ access_logs[1].user_id = ret.user_id
    /\ WindowsOf(ret.user_id) # {}
    /\ \A w \in WindowsOf(ret.user_id) :
          \/ access_logs[1].timestamp < access_windows[w].start_time
          \/ access_logs[1].timestamp > access_windows[w].end_time
    /\ access_logs[2].reason = "USER_INACTIVE"
    /\ ~ret.ok
    /\ users[ret.user_id].status = "INACTIVE"
    /\ PresentsRightPin(ret.user_id, ret.entered_code)
    /\ \E w \in WindowsOf(ret.user_id) :
          /\ access_windows[w].start_time <= ret.current_time
          /\ ret.current_time < access_windows[w].end_time
    /\ users[ret.user_id].failed_pin_attempts = 1
    /\ users[ret.user_id].last_failed_at = access_logs[1].timestamp

\* C3: after N access attempts the audit log holds exactly N rows, and the
\* i-th row carries the verdict the i-th call returned.
C3_OneLogPerAttemptInCallOrder ==
    /\ Len(access_logs) = Len(verdicts)
    /\ \A i \in 1..Len(verdicts) : verdicts[i] <=> access_logs[i].result = "GRANT"

\* an unknown id was denied and then a valid attempt granted, logged in that order
C3_Witness ==
    /\ Len(verdicts) = 2
    /\ ~verdicts[1]
    /\ verdicts[2]
    /\ access_logs[1].reason = "USER_NOT_FOUND"
    /\ access_logs[2].reason = "ACCESS_GRANTED"

\* C4 (as claimed): with [T, T+d) its only window, a principal passing steps
\* 1-3 is granted at now = T and denied with OUTSIDE_ACCESS_WINDOW at now = T+d.
C4_HalfOpenWindow ==
    [][(/\ Attempted
        /\ Exists(ret'.user_id)
        /\ PassesLifecycle(ret'.user_id)
        /\ PresentsRightPin(ret'.user_id, ret'.entered_code)
        /\ Cardinality(WindowsOf(ret'.user_id)) = 1)
       => LET w == access_windows[CHOOSE i \in WindowsOf(ret'.user_id) : TRUE]
          IN  /\ ret'.current_time = w.start_time
                   => ret'.ok /\ NewLog.result = "GRANT"
              /\ ret'.current_time = w.end_time
                   => ~ret'.ok /\ NewLog.reason = "OUTSIDE_ACCESS_WINDOW"]_vars

\* C5: an ACTIVE, confirmed principal with the right PIN and no access window
\* is granted at every time of the attempt.
C5_NoWindowMeansUnrestricted ==
    [][(/\ Attempted
        /\ Exists(ret'.user_id)
        /\ PassesLifecycle(ret'.user_id)
        /\ PresentsRightPin(ret'.user_id, ret'.entered_code)
        /\ WindowsOf(ret'.user_id) = {})
       => /\ ret'.ok
          /\ ret'.message = "Access granted"
          /\ NewLog.result = "GRANT"
          /\ NewLog.reason = "ACCESS_GRANTED"]_vars

\* a principal without windows was granted at the last tick, at which the only
\* window there is, another principal's, is over
C5_Witness ==
    /\ ret.ok
    /\ Exists(ret.user_id)
    /\ WindowsOf(ret.user_id) = {}
    /\ ret.current_time = MaxTime
    /\ Len(access_windows) > 0
    /\ \A w \in 1..Len(access_windows) : access_windows[w].end_time < ret.current_time

\* C6: a principal passing steps 1-3 that has at least one window is denied
\* with OUTSIDE_ACCESS_WINDOW when the time lies before the start or after
\* the end of every window of its own, and granted when it lies strictly
\* inside one of them; the windows of other principals play no part.
C6_RestrictedToOwnWindows ==
    [][(/\ Attempted
        /\ Exists(ret'.user_id)
        /\ PassesLifecycle(ret'.user_id)
        /\ PresentsRightPin(ret'.user_id, ret'.entered_code)
        /\ WindowsOf(ret'.user_id) # {})
       => /\ (\A w \in WindowsOf(ret'.user_id) :
                 \/ ret'.current_time < access_windows[w].start_time
                 \/ ret'.current_time > access_windows[w].end_time)
               => /\ ~ret'.ok
                  /\ NewLog.result = "DENY"
                  /\ NewLog.reason = "OUTSIDE_ACCESS_WINDOW"
          /\ (\E w \in WindowsOf(ret'.user_id) :
                 /\ access_windows[w].start_time < ret'.current_time
                 /\ ret'.current_time < access_windows[w].end_time)
               => /\ ret'.ok
                  /\ NewLog.result = "GRANT"]_vars

\* a principal was denied outside its own window at a time inside the window
\* of another principal
C6_Witness ==
    /\ Len(access_logs) > 0
    /\ ~ret.ok
    /\ LastLog.reason = "OUTSIDE_ACCESS_WINDOW"
    /\ LastLog.user_id = ret.user_id
    /\ WindowsOf(ret.user_id) # {}
    /\ \E w \in 1..Len(access_windows) :
          /\ access_windows[w].user_id # ret.user_id
          /\ access_windows[w].start_time <= ret.current_time
          /\ ret.current_time < access_windows[w].end_time

\* C7: at step 3, a null pin_hash or a PIN that does not match gives DENY,
\* failed_pin_attempts one higher and last_failed_at the time of the call.
C7_PinFailureIsCounted ==
    [][(/\ Attempted
        /\ Exists(ret'.user_id)
        /\ PassesLifecycle(ret'.user_id)
        /\ \/ users[ret'.user_id].pin_hash = NoHash
           \/ ~PresentsRightPin(ret'.user_id, ret'.entered_code))
       => /\ ~ret'.ok
          /\ NewLog.result = "DENY"
          /\ users'[ret'.user_id].failed_pin_attempts
               = users[ret'.user_id].failed_pin_attempts + 1
          /\ users'[ret'.user_id].last_failed_at = ret'.current_time
          /\ NewLog.timestamp = ret'.current_time]_vars

\* an ACTIVE principal without a pin_hash has failed twice, the second time
\* later than the first
C7_Witness ==
    /\ Len(access_logs) = 2
    /\ ~ret.ok
    /\ Exists(ret.user_id)
    /\ users[ret.user_id].status = "ACTIVE"
    /\ users[ret.user_id].pin_hash = NoHash
    /\ users[ret.user_id].failed_pin_attempts = 2
    /\ access_logs[1].timestamp < ret.current_time
    /\ users[ret.user_id].last_failed_at = ret.current_time

\* C8: a grant leaves failed_pin_attempts at 0 whatever it was; a denial at
\* the window gate leaves it as it was.
C8_GrantResetsCounter ==
    [][Attempted =>
        /\ ret'.ok => users'[ret'.user_id].failed_pin_attempts = 0
        /\ NewLog.reason = "OUTSIDE_ACCESS_WINDOW" => users' = users]_vars

\* a principal failed the PIN check and was granted afterwards: the counter
\* is back at 0 and last_failed_at still tells of the failure
C8_Witness ==
    /\ Len(access_logs) = 2
    /\ access_logs[1].reason = "WRONG_PIN"
    /\ access_logs[1].user_id = ret.user_id
    /\ ret.ok
    /\ access_logs[2].result = "GRANT"
    /\ users[ret.user_id].failed_pin_attempts = 0
    /\ users[ret.user_id].last_failed_at = access_logs[1].timestamp
    /\ WindowsOf(ret.user_id) # {}

\* C9: an attempt naming no account returns DENY, appends exactly one row
\* with user_id NULL and reason USER_NOT_FOUND, and writes no row of users.
C9_UnknownPrincipal ==
    [][(Attempted /\ ~Exists(ret'.user_id))
       => /\ ~ret'.ok
          /\ AppendsOneLog
          /\ NewLog.user_id = NULL
          /\ NewLog.result = "DENY"
          /\ NewLog.reason = "USER_NOT_FOUND"
          /\ users' = users]_vars

\* an id one past the last account was denied, with a counted failure of a
\* real account already in the table
C9_Witness ==
    /\ Len(access_logs) = 2
    /\ ret.user_id = Len(users) + 1
    /\ ~ret.ok
    /\ LastLog.user_id = NULL
    /\ LastLog.reason = "USER_NOT_FOUND"
    /\ \E i \in 1..Len(users) : users[i].failed_pin_attempts = 1

\* the reason codes as the specification names them
SpecReasons ==
    {"USER_NOT_FOUND", "ACCOUNT_INACTIVE", "INVALID_PIN", "OUTSIDE_ACCESS_WINDOW",
     "ACCESS_GRANTED"}

\* the reason codes as the evaluator writes them
CodeReasons ==
    {"USER_NOT_FOUND", "USER_INACTIVE", "WRONG_PIN", "OUTSIDE_ACCESS_WINDOW",
     "ACCESS_GRANTED"}

\* the step at which an attempt ends, read before the call: 1 existence,
\* 2 lifecycle gate, 3 PIN, 4 window gate (the reason tells it apart from 5)
FailsAt(user_id, entered_code) ==
    IF ~Exists(user_id) THEN 1
    ELSE IF ~PassesLifecycle(user_id) THEN 2
    ELSE IF ~PresentsRightPin(user_id, entered_code) THEN 3
    ELSE 4

C11_CounterNeverDecides ==
    [][Attempted =>
        LET user_id == ret'.user_id
        IN  ret'.ok <=>
              /\ Exists(user_id)
              /\ PassesLifecycle(user_id)
              /\ PresentsRightPin(user_id, ret'.entered_code)
              /\ \/ WindowsOf(user_id) = {}
                 \/ \E w \in WindowsOf(user_id) :
                       /\ access_windows[w].start_time <= ret'.current_time
                       /\ ret'.current_time <= access_windows[w].end_time]_vars

\* a principal with a counted PIN failure presented the right PIN inside its
\* window and was granted
C11_Witness ==
    /\ Len(access_logs) = 2
    /\ access_logs[1].reason = "WRONG_PIN"
    /\ access_logs[1].user_id = ret.user_id
    /\ users[ret.user_id].last_failed_at = access_logs[1].timestamp
    /\ ret.ok
    /\ PresentsRightPin(ret.user_id, ret.entered_code)
    /\ \E w \in WindowsOf(ret.user_id) :
          /\ access_windows[w].start_time <= ret.current_time
          /\ ret.current_time < access_windows[w].end_time

\* C12: an access attempt for principal p leaves every access window, every
\* row of every other principal and p's email, status, role, role_expires_at,
\* pin_hash and email_confirmed_at as they were; it writes p's
\* failed_pin_attempts and last_failed_at at most, and appends one audit row.
C12_EvaluateFrame ==
    [][Attempted =>
        /\ access_windows' = access_windows
        /\ AppendsOneLog
        /\ Len(users') = Len(users)
        /\ \A i \in 1..Len(users) :
             /\ i # ret'.user_id => users'[i] = users[i]
             /\ users'[i].email = users[i].email
             /\ users'[i].status = users[i].status
             /\ users'[i].role = users[i].role
             /\ users'[i].role_expires_at = users[i].role_expires_at
             /\ users'[i].pin_hash = users[i].pin_hash
             /\ users'[i].email_confirmed_at = users[i].email_confirmed_at]_vars

\* the attempt of an administrator without a PIN was counted against it,
\* with another principal and a window in the tables
C12_Witness ==
    /\ Len(users) = 2
    /\ Len(access_windows) > 0
    /\ Len(access_logs) > 0
    /\ ~ret.ok
    /\ Exists(ret.user_id)
    /\ LastLog.reason = "WRONG_PIN"
    /\ users[ret.user_id].role = "ADMIN"
    /\ users[ret.user_id].status = "ACTIVE"
    /\ users[ret.user_id].failed_pin_attempts = 1
    /\ \E i \in 1..Len(users) : i # ret.user_id /\ users[i].failed_pin_attempts = 0

Registered(user_id) == users[user_id].email # AdminEmail

\* C14: approving an e-mail-confirmed principal leaves it ACTIVE with the hash
\* of the issued PIN as its non-null pin_hash; and in every reachable state
\* an ACTIVE principal has its e-mail confirmed and, if it came through
\* registration, a non-null pin_hash.
C14_ApprovalActivatesWithPin ==
    /\ [](\A i \in 1..Len(users) :
            users[i].status = "ACTIVE" =>
                /\ users[i].email_confirmed_at # NULL
                /\ Registered(i) => users[i].pin_hash # NoHash)
    /\ [][\A current_user \in Requesters, utcnow \in ClockReadings,
             user_id \in 1..Len(users), raw_pin \in Codes, salt \in PinSalts :
            (/\ admin_required(current_user, utcnow)
             /\ users[user_id].email_confirmed_at # NULL
             /\ approve_user(current_user, utcnow, user_id, raw_pin, salt))
            => /\ users'[user_id].status = "ACTIVE"
               /\ users'[user_id].pin_hash # NoHash
               /\ users'[user_id].pin_hash = generate_password_hash(raw_pin, salt)
               /\ users'[user_id].email_confirmed_at = users[user_id].email_confirmed_at]_vars

\* a registered principal is ACTIVE with a PIN hashed under the second salt,
\* next to the seeded administrator, ACTIVE without a PIN
C14_Witness ==
    /\ Len(users) = 2
    /\ \E i \in 1..Len(users) :
          /\ Registered(i)
          /\ users[i].status = "ACTIVE"
          /\ users[i].email_confirmed_at # NULL
          /\ users[i].pin_hash # NoHash
          /\ users[i].pin_hash[1] = 2
    /\ \E i \in 1..Len(users) :
          /\ ~Registered(i)
          /\ users[i].status = "ACTIVE"
          /\ users[i].pin_hash = NoHash

\* C15: approving a principal whose email_confirmed_at is null changes
\* nothing; a principal without confirmation is INACTIVE and has no
\* pin_hash in every reachable state; and a row of the table only goes from
\* INACTIVE to ACTIVE by an approval, of a confirmed principal.
C15_UnconfirmedNeverApproved ==
    /\ [](\A i \in 1..Len(users) :
            users[i].email_confirmed_at = NULL =>
                users[i].status = "INACTIVE" /\ users[i].pin_hash = NoHash)
    /\ [][/\ \A current_user \in Requesters, utcnow \in ClockReadings,
               user_id \in 1..Len(users), raw_pin \in Codes, salt \in PinSalts :
              (/\ users[user_id].email_confirmed_at = NULL
               /\ approve_user(current_user, utcnow, user_id, raw_pin, salt))
              => /\ users' = users
                 /\ access_windows' = access_windows
                 /\ access_logs' = access_logs
          /\ \A i \in 1..Len(users) :
              (users[i].status = "INACTIVE" /\ users'[i].status = "ACTIVE")
              => /\ users[i].email_confirmed_at # NULL
                 /\ \E current_user \in Requesters, utcnow \in ClockReadings,
                       raw_pin \in Codes, salt \in PinSalts :
                       /\ admin_required(current_user, utcnow)
                       /\ approve_user(current_user, utcnow, i, raw_pin, salt)]_vars

\* a registered principal without confirmation has been denied at the
\* lifecycle gate, INACTIVE and without a PIN, while an administrator that
\* could approve is in the table
C15_Witness ==
    /\ Len(access_logs) = 1
    /\ LastLog.reason = "USER_INACTIVE"
    /\ Exists(ret.user_id)
    /\ Registered(ret.user_id)
    /\ users[ret.user_id].email_confirmed_at = NULL
    /\ users[ret.user_id].status = "INACTIVE"
    /\ users[ret.user_id].pin_hash = NoHash
    /\ \E a \in Requesters : admin_required(a, 0)

\* C16 (as claimed): approving an already-active principal again succeeds and
\* replaces pin_hash by the hash of the newly issued PIN, after which the
\* newly issued PIN verifies and the PIN issued before no longer does; and an
\* attempt of an ACTIVE, confirmed principal is denied at step 3 exactly
\* when the presented PIN does not verify against pin_hash.
C16_SecondPinInvalidatesFirst ==
    [][/\ \A current_user \in Requesters, utcnow \in ClockReadings,
             user_id \in 1..Len(users), raw_pin \in Codes, salt \in PinSalts :
            (/\ admin_required(current_user, utcnow)
             /\ users[user_id].status = "ACTIVE"
             /\ users[user_id].pin_hash # NoHash
             /\ approve_user(current_user, utcnow, user_id, raw_pin, salt))
            => /\ users'[user_id].status = "ACTIVE"
               /\ users'[user_id].pin_hash = generate_password_hash(raw_pin, salt)
               /\ check_password_hash(users'[user_id].pin_hash, raw_pin)
               /\ \A first \in Codes :
                    check_password_hash(users[user_id].pin_hash, first)
                    => ~check_password_hash(users'[user_id].pin_hash, first)
       /\ (Attempted /\ Exists(ret'.user_id) /\ PassesLifecycle(ret'.user_id))
            => (NewLog.reason = "WRONG_PIN"
                  <=> ~(/\ users[ret'.user_id].pin_hash # NoHash
                        /\ check_password_hash(users[ret'.user_id].pin_hash,
                                                ret'.entered_code)))]_vars

\* C17: a deactivation leaves the principal INACTIVE and everything else
\* (pin_hash, email_confirmed_at, role, role_expires_at, counters, the other
\* rows, windows, audit log) as it was, and nothing but a deactivation takes
\* a principal from ACTIVE to INACTIVE; an INACTIVE principal is denied at
\* the lifecycle gate whatever PIN it presents and whatever its windows; and
\* only an approval takes it back to ACTIVE.
C17_DeactivationOnlyFlipsStatus ==
    [][/\ \A current_user \in Requesters, utcnow \in ClockReadings,
             user_id \in 1..Len(users) :
            (/\ admin_required(current_user, utcnow)
             /\ deactivate_user(current_user, utcnow, user_id))
            => /\ users' = [users EXCEPT ![user_id].status = "INACTIVE"]
               /\ access_windows' = access_windows
               /\ access_logs' = access_logs
       /\ \A i \in 1..Len(users) :
            (users[i].status = "ACTIVE" /\ users'[i].status = "INACTIVE")
            => /\ users' = [users EXCEPT ![i].status = "INACTIVE"]
               /\ \E current_user \in Requesters, utcnow \in ClockReadings :
                     /\ admin_required(current_user, utcnow)
                     /\ deactivate_user(current_user, utcnow, i)
       /\ \A i \in 1..Len(users) :
            (users[i].status = "INACTIVE" /\ users'[i].status = "ACTIVE")
            => \E current_user \in Requesters, utcnow \in ClockReadings,
                  raw_pin \in Codes, salt \in PinSalts :
                  approve_user(current_user, utcnow, i, raw_pin, salt)
       /\ (Attempted /\ Exists(ret'.user_id)
             /\ users[ret'.user_id].status = "INACTIVE")
            => /\ ~ret'.ok
               /\ NewLog.result = "DENY"
               /\ NewLog.reason = "USER_INACTIVE"
               /\ users' = users]_vars

\* an approved principal, deactivated, has presented the PIN still stored
\* for it inside its window and has been denied at the lifecycle gate
C17_Witness ==
    /\ Len(access_logs) = 1
    /\ Exists(ret.user_id)
    /\ Registered(ret.user_id)
    /\ users[ret.user_id].status = "INACTIVE"
    /\ users[ret.user_id].email_confirmed_at # NULL
    /\ PresentsRightPin(ret.user_id, ret.entered_code)
    /\ \E w \in WindowsOf(ret.user_id) :
          /\ access_windows[w].start_time < ret.current_time
          /\ ret.current_time < access_windows[w].end_time
    /\ ~ret.ok
    /\ LastLog.reason = "USER_INACTIVE"
    /\ users[ret.user_id].failed_pin_attempts = 0

\* what the specification says HasAdminAccess is
HasAdminAccess(role, role_expires_at, now) ==
    role = "ADMIN" /\ (role_expires_at = NULL \/ role_expires_at >= now)

\* the rows has_admin_access can be asked about, as far as it could read them
AdminRows ==
    [role : {"USER", "ADMIN"}, role_expires_at : Expiries,
     status : {"ACTIVE", "INACTIVE"}, email_confirmed_at : {NULL, 0}]

\* C18: has_admin_access is true exactly when role = ADMIN and
\* role_expires_at is null or not before the time of the check, whatever
\* status and e-mail confirmation are: it holds at the expiry itself and
\* fails after it; an administrator request by a logged-in principal is
\* served exactly when it holds; and the stored role and expiry only change
\* by a temporary grant or a clearing, never by the passing of time.
C18_HasAdminAccess ==
    /\ [](/\ \A u \in AdminRows, now \in Times :
               has_admin_access(u, now) <=> HasAdminAccess(u.role, u.role_expires_at, now)
          /\ \A i \in 1..Len(users), now \in Times :
               has_admin_access(users[i], now)
                 <=> HasAdminAccess(users[i].role, users[i].role_expires_at, now)
          /\ \A current_user \in Requesters \ {NULL}, now \in Times,
                user_id \in 1..Len(users) :
               users[user_id].role = "ADMIN" =>
                 ((ENABLED (/\ clear_admin(current_user, now, user_id)
                            /\ users'[user_id].role = "USER"))
                    <=> HasAdminAccess(users[current_user].role,
                                       users[current_user].role_expires_at, now)))
    /\ [][\A i \in 1..Len(users) :
            (\/ users'[i].role # users[i].role
             \/ users'[i].role_expires_at # users[i].role_expires_at)
            => \E current_user \in Requesters, utcnow \in Times :
                 \/ clear_admin(current_user, utcnow, i)
                 \/ \E role_expires_at \in Expiries, validated_at \in Times :
                       set_temp_admin(current_user, utcnow, i, role_expires_at,
                                      validated_at)]_vars

\* a registered principal that was never approved holds a temporary grant
\* that is good at its expiry and over one tick later, its role still ADMIN
C18_Witness ==
    \E i \in 1..Len(users) :
        /\ Registered(i)
        /\ users[i].status = "INACTIVE"
        /\ users[i].pin_hash = NoHash
        /\ users[i].role = "ADMIN"
        /\ users[i].role_expires_at \in Times
        /\ users[i].role_expires_at < MaxTime
        /\ has_admin_access(users[i], users[i].role_expires_at)
        /\ ~has_admin_access(users[i], users[i].role_expires_at + 1)

\* C19: a temporary administrator grant whose expiry is missing or not later
\* than the clock reading of its validation changes no row; one whose expiry
\* is later sets role = ADMIN and role_expires_at = the expiry on the target
\* and nothing else.
C19_TempAdminNeedsFutureExpiry ==
    [][\A current_user \in Requesters, utcnow \in Times, user_id \in 1..Len(users),
          role_expires_at \in Expiries, validated_at \in Times :
          (/\ validated_at \in {utcnow, utcnow + 1}
           /\ admin_required(current_user, utcnow)
           /\ set_temp_admin(current_user, utcnow, user_id, role_expires_at, validated_at))
          => /\ (role_expires_at = NULL \/ role_expires_at <= validated_at)
                  => users' = users
             /\ (role_expires_at # NULL /\ role_expires_at > validated_at)
                  => users' = [users EXCEPT ![user_id].role = "ADMIN",
                                            ![user_id].role_expires_at = role_expires_at]]_vars

\* a registered principal holds a grant expiring one tick after the earliest
\* clock reading, and the seeded administrator one expiring at the last tick
C19_Witness ==
    /\ \E i \in 1..Len(users) :
          /\ Registered(i)
          /\ users[i].role = "ADMIN"
          /\ users[i].role_expires_at = 1
    /\ \E i \in 1..Len(users) :
          /\ ~Registered(i)
          /\ users[i].role = "ADMIN"
          /\ users[i].role_expires_at = MaxTime

\* C20: clearing the administrator role leaves the target with role = USER
\* and role_expires_at = NULL whatever they were, and nothing else changed;
\* a principal with role USER has no expiry and no administrator access at
\* any time, and only a valid temporary grant gives it the role again;
\* clearing a principal already cleared changes nothing.
C20_ClearAdminResetsRole ==
    /\ [](/\ \A i \in 1..Len(users), now \in Times :
               users[i].role = "USER" =>
                   /\ users[i].role_expires_at = NULL
                   /\ ~has_admin_access(users[i], now)
          /\ \A current_user \in Requesters, now \in Times, user_id \in 1..Len(users) :
               (users[user_id].role = "USER" /\ users[user_id].role_expires_at = NULL)
               => ~ENABLED (clear_admin(current_user, now, user_id) /\ users' # users))
    /\ [][/\ \A current_user \in Requesters, utcnow \in Times,
                user_id \in 1..Len(users) :
               (/\ admin_required(current_user, utcnow)
                /\ clear_admin(current_user, utcnow, user_id))
               => users' = [users EXCEPT ![user_id].role = "USER",
                                         ![user_id].role_expires_at = NULL]
          /\ \A i \in 1..Len(users) :
               (users[i].role = "USER" /\ users'[i].role = "ADMIN")
               => \E current_user \in Requesters, utcnow \in Times,
                     role_expires_at \in Times, validated_at \in Times :
                     /\ role_expires_at > validated_at
                     /\ set_temp_admin(current_user, utcnow, i, role_expires_at,
                                       validated_at)]_vars

\* the seeded administrator has been cleared and has no administrator access
\* at any time, while a registered principal holds a temporary grant
C20_Witness ==
    /\ \E i \in 1..Len(users) :
          /\ ~Registered(i)
          /\ users[i].role = "USER"
          /\ users[i].role_expires_at = NULL
          /\ \A now \in Times : ~has_admin_access(users[i], now)
    /\ \E i \in 1..Len(users) :
          /\ Registered(i)
          /\ users[i].role = "ADMIN"
          /\ has_admin_access(users[i], MaxTime)

\* ---- C21 ----
\* what a confirmation request with the given inputs may leave in users
Confirmed(email, token_valid, utcnow) ==
    LET found == {i \in UserIds : users[i].email = email}
    IN  IF token_valid /\ found # {} /\ ~email_confirmed(users[CHOOSE i \in found : TRUE])
        THEN [users EXCEPT ![CHOOSE i \in found : TRUE].email_confirmed_at = utcnow]
        ELSE users

ConfirmationIsExact ==
    \A raw_email \in RawEmails, token_valid \in BOOLEAN, utcnow \in Times :
        LET email == NormalizeEmail(raw_email)
        IN  /\ ENABLED (confirm_email(email, token_valid, utcnow)
                          /\ users' = Confirmed(email, token_valid, utcnow))
            /\ ~ENABLED (confirm_email(email, token_valid, utcnow)
                           /\ users' # Confirmed(email, token_valid, utcnow))
            /\ \A i \in UserIds :
                   users[i].email = email /\ token_valid =>
                       /\ Confirmed(email, token_valid, utcnow)[i].status = users[i].status
                       /\ confirm_email_flash(email, token_valid) \in {"success", "info"}
                       /\ email_confirmed(users[i]) =>
                              /\ confirm_email_flash(email, token_valid) = "info"
                              /\ ~ENABLED (confirm_email(email, token_valid, utcnow)
                                             /\ vars' # vars)

FirstConfirmationStays ==
    \A i \in UserIds :
        users[i].email_confirmed_at # NULL =>
            users'[i].email_confirmed_at = users[i].email_confirmed_at

\* C21: a confirmation with a valid token sets email_confirmed_at of the
\* principal with the token's email and changes nothing else, in particular not
\* its status; a confirmation of an already confirmed principal is answered
\* without an error message and changes nothing, and a timestamp once set keeps
\* its value.
C21_ConfirmEmailIdempotent ==
    /\ [] ConfirmationIsExact
    /\ [][FirstConfirmationStays]_vars

\* a registered principal, confirmed at time 0 and still INACTIVE, whose token
\* can be consumed again at a later time
C21_Witness ==
    \E i \in UserIds :
        /\ Registered(i)
        /\ users[i].status = "INACTIVE"
        /\ users[i].email_confirmed_at = 0
        /\ confirm_email_flash(users[i].email, TRUE) = "info"
        /\ ENABLED (confirm_email(users[i].email, TRUE, MaxTime) /\ UNCHANGED vars)

\* ---- C22 ----
Duplicate(raw_email) == EmailTaken(NormalizeEmail(raw_email))

\* a registration creates exactly the row of an unapproved principal
RegistrationCreatesInactiveUser ==
    \A raw_email \in RawEmails :
        ~Duplicate(raw_email) /\ Len(users) < MaxUsers =>
            /\ ENABLED (register(raw_email) /\ users' # users)
            /\ ~ENABLED (register(raw_email)
                           /\ users' # Append(users,
                                  [email |-> NormalizeEmail(raw_email),
                                   status |-> "INACTIVE", role |-> "USER",
                                   role_expires_at |-> NULL, pin_hash |-> NoHash,
                                   email_confirmed_at |-> NULL,
                                   failed_pin_attempts |-> 0, last_failed_at |-> NULL]))

DuplicateCreatesNothing ==
    \A raw_email \in RawEmails :
        Duplicate(raw_email) => ~ENABLED (register(raw_email) /\ vars' # vars)

EmailsUnique ==
    \A i, j \in UserIds : users[i].email = users[j].email => i = j

\* the rejection is an answer of the request itself, not a server fault
DuplicateIsRecoverable ==
    \A raw_email \in RawEmails :
        Duplicate(raw_email) => register_response(raw_email).status < 500

\* C22: a registration creates a principal that is INACTIVE, of role USER,
\* unconfirmed and without pin_hash; a registration whose case-folded, trimmed
\* email is already stored is rejected as a recoverable error, creates no row
\* and changes no principal, so no two principals share an email.
C22_RegisterRejectsDuplicates ==
    /\ RegistrationCreatesInactiveUser
    /\ DuplicateCreatesNothing
    /\ EmailsUnique
    /\ DuplicateIsRecoverable

\* the part of C22 that concerns the stored principals only
C22_StoredPart ==
    /\ RegistrationCreatesInactiveUser
    /\ DuplicateCreatesNothing
    /\ EmailsUnique

\* ---- C23 ----
EmptyWindowRefused ==
    \A current_user \in Requesters, utcnow \in ClockReadings, user_id \in 1..MaxUsers,
       start \in Times, end \in Times :
        end <= start =>
            ~ENABLED (windows(current_user, utcnow, user_id, start, end) /\ vars' # vars)

\* C23: a request to add a window whose end is not after its start (end = start
\* included) stores nothing, and every stored window has end_time > start_time.
C23_WindowEndsAfterStart ==
    /\ EmptyWindowRefused
    /\ \A w \in 1..Len(access_windows) :
           access_windows[w].end_time > access_windows[w].start_time

\* an administrator who has stored a window asks for one with end = start
C23_Witness ==
    /\ Len(access_windows) > 0
    /\ \E current_user \in Requesters, user_id \in UserIds :
           /\ admin_required(current_user, 0)
           /\ ENABLED (windows(current_user, 0, user_id, 1, 1) /\ UNCHANGED vars)

\* ---- C24 ----
GatePasses(user_id, t) == active_window(user_id, t) # {}

\* every request either stores nothing or appends the one window it names
WindowRequestAppendsOne ==
    \A current_user \in Requesters, utcnow \in ClockReadings, user_id \in 1..MaxUsers,
       start \in Times, end \in Times :
        ~ENABLED (/\ windows(current_user, utcnow, user_id, start, end)
                  /\ access_windows' # access_windows
                  /\ access_windows' #
                         Append(access_windows,
                                [user_id |-> user_id, start_time |-> start,
                                 end_time |-> end]))

\* a step that changes the stored windows keeps the old ones and what they permit
WindowsOnlyWiden ==
    access_windows' # access_windows =>
        /\ Len(access_windows') = Len(access_windows) + 1
        /\ SubSeq(access_windows', 1, Len(access_windows)) = access_windows
        /\ \A user_id \in UserIds, t \in Times :
               has_any_window(user_id) /\ GatePasses(user_id, t) =>
                   GatePasses(user_id, t)'

LacksAdminAccess(requester, now) ==
    \/ requester = NULL
    \/ ~HasAdminAccess(users[requester].role, users[requester].role_expires_at, now)

\* no administrator route run for this requester can change anything
AdminRoutesChangeNothing(requester, now) ==
    /\ ~ENABLED (dashboard(requester, now) /\ vars' # vars)
    /\ ~ENABLED (logs(requester, now) /\ vars' # vars)
    /\ \A user_id \in 1..MaxUsers :
           /\ \A raw_pin \in Codes, salt \in PinSalts :
                  ~ENABLED (approve_user(requester, now, user_id, raw_pin, salt)
                              /\ vars' # vars)
           /\ ~ENABLED (deactivate_user(requester, now, user_id) /\ vars' # vars)
           /\ \A role_expires_at \in Expiries, validated_at \in Times :
                  ~ENABLED (set_temp_admin(requester, now, user_id, role_expires_at,
                                           validated_at) /\ vars' # vars)
           /\ ~ENABLED (clear_admin(requester, now, user_id) /\ vars' # vars)
           /\ \A start \in Times, end \in Times :
                  ~ENABLED (windows(requester, now, user_id, start, end) /\ vars' # vars)

RefusedOnAdminRoutes ==
    \A requester \in Requesters, now \in Times :
        LacksAdminAccess(requester, now) =>
            /\ enforce_admin(requester, now) = forbidden
            /\ forbidden.status = 403
            /\ AdminRoutesChangeNothing(requester, now)

OthersHistory(requester) == {user_id \in UserIds : user_id # requester}

\* C25 as claimed: a requester without administrator access at the time of
\* the request (no session, role USER, or ADMIN past its expiry) is answered
\* 403 on every administrator route, which changes nothing, and is answered
\* 403 when asking for the history of another principal.
C25_NonAdminForbiddenAsClaimed ==
    /\ RefusedOnAdminRoutes
    /\ \A requester \in Requesters, now \in Times :
           LacksAdminAccess(requester, now) =>
               \A user_id \in OthersHistory(requester) :
                   /\ forbidden_user_history_response(requester, user_id) = forbidden
                   /\ ~ENABLED (forbidden_user_history(requester, user_id)
                                  /\ vars' # vars)

\* C25, amended: a requester without administrator access at the time of the
\* request is answered 403 on every administrator route, which changes
\* nothing; asking for the history of another principal, a requester with a
\* session is answered 403 and one without a session is redirected to the
\* login view; neither request changes anything.
C25_NonAdminForbidden ==
    /\ RefusedOnAdminRoutes
    /\ \A requester \in Requesters, now \in Times :
           LacksAdminAccess(requester, now) =>
               \A user_id \in OthersHistory(requester) :
                   /\ requester # NULL =>
                          forbidden_user_history_response(requester, user_id) = forbidden
                   /\ requester = NULL =>
                          /\ forbidden_user_history_response(requester, user_id).status = 302
                          /\ forbidden_user_history_response(requester, user_id).message
                                 = "auth.login"
                   /\ ~ENABLED (forbidden_user_history(requester, user_id)
                                  /\ vars' # vars)

\* a principal whose ADMIN role has expired holds a session while an
\* unapproved, confirmed principal waits for approval
C25_Witness ==
    \E requester \in Requesters \ {NULL}, user_id \in UserIds :
        /\ users[requester].role = "ADMIN"
        /\ users[requester].role_expires_at # NULL
        /\ users[requester].role_expires_at < MaxTime
        /\ enforce_admin(requester, MaxTime) = forbidden
        /\ user_id # requester
        /\ email_confirmed(users[user_id])
        /\ users[user_id].status = "INACTIVE"
        /\ forbidden_user_history_response(requester, user_id) = forbidden

\* ---- C30 ----
\* C30: in every reachable state a principal has role USER exactly when its
\* role_expires_at is null: there is no administrator without an expiry and
\* no USER with an expiry left over.
C30_UserIffNoExpiry ==
    \A i \in UserIds : users[i].role = "USER" <=> users[i].role_expires_at = NULL

\* a registered USER without expiry beside an administrator whose expiry was
\* set by a temporary grant and whom a clear-admin request would reset
C30_Witness ==
    \E i, j \in UserIds :
        /\ Registered(i)
        /\ users[i].role = "USER"
        /\ users[i].role_expires_at = NULL
        /\ users[j].role = "ADMIN"
        /\ users[j].role_expires_at \in Times
        /\ ENABLED (clear_admin(j, 0, j) /\ users' # users)

\* ---- C29 ----
GrantsOf(user_id) ==
    {k \in 1..Len(access_logs) :
        access_logs[k].user_id = user_id /\ access_logs[k].result = "GRANT"}

\* the position of the principal's latest GRANT row, 0 without one
LastGrant(user_id) ==
    IF GrantsOf(user_id) = {} THEN 0
    ELSE CHOOSE k \in GrantsOf(user_id) : \A g \in GrantsOf(user_id) : g <= k

PinFailuresSinceGrant(user_id) ==
    Cardinality({k \in 1..Len(access_logs) :
        /\ k > LastGrant(user_id)
        /\ access_logs[k].user_id = user_id
        /\ access_logs[k].result = "DENY"
        /\ access_logs[k].reason = "WRONG_PIN"})

CounterMatchesLog ==
    \A i \in UserIds :
        /\ users[i].failed_pin_attempts = PinFailuresSinceGrant(i)
        /\ users[i].failed_pin_attempts >= 0

\* a denial at the lifecycle gate or at the window gate leaves every counter
OtherDenialsKeepCounter ==
    Attempted /\ AppendsOneLog
        /\ NewLog.reason \in {"USER_INACTIVE", "OUTSIDE_ACCESS_WINDOW", "USER_NOT_FOUND"} =>
            \A i \in UserIds :
                users'[i].failed_pin_attempts = users[i].failed_pin_attempts

\* C29: with access attempts run one at a time, each principal's
\* failed_pin_attempts equals the number of its WRONG_PIN denials logged after
\* its latest GRANT (after its registration if it has none); it is never
\* negative, and denials at the lifecycle gate and at the window gate do not
\* change it.
C29_CounterCountsPinFailures ==
    /\ [] CounterMatchesLog
    /\ [][OtherDenialsKeepCounter]_vars

\* a principal with a counted PIN failure is denied at the window gate
C29_Witness ==
    /\ Len(access_logs) = 2
    /\ access_logs[1].reason = "WRONG_PIN"
    /\ access_logs[2].reason = "OUTSIDE_ACCESS_WINDOW"
    /\ access_logs[1].user_id = access_logs[2].user_id
    /\ access_logs[1].user_id \in UserIds
    /\ users[access_logs[1].user_id].failed_pin_attempts = 1

\* ---- C26 ----
\* a step in which the commit of call c failed: the call is over, no verdict
CommitFailed(c) ==
    /\ calls[c].pc = "decided"
    /\ calls'[c].pc = "idle"
    /\ verdicts' = verdicts

FailedCommitPersistsNothing ==
    \A c \in CallIds :
        CommitFailed(c) => UNCHANGED <<users, access_windows, access_logs, ret>>

\* counters and last_failed_at change only in a step that also appends the
\* row of the audit log and returns the verdict
CountersChangeWithLog ==
    \A i \in UserIds :
        \/ /\ users'[i].failed_pin_attempts = users[i].failed_pin_attempts
           /\ users'[i].last_failed_at = users[i].last_failed_at
        \/ /\ AppendsOneLog
           /\ NewLog.user_id = i
           /\ Attempted

\* C26: when the commit that ends an access attempt fails, the attempt returns
\* no verdict and nothing of it is stored: users (failed_pin_attempts and
\* last_failed_at included) and the audit log are as before; the counter
\* change and the audit row are written by one commit.
C26_FailedCommitPersistsNothing ==
    [][FailedCommitPersistsNothing /\ CountersChangeWithLog]_vars

\* an attempt with a counter change and a WRONG_PIN row pending, whose commit
\* can fail
C26_Witness ==
    \E c \in CallIds :
        /\ calls[c].pc = "decided"
        /\ calls[c].dirty # {}
        /\ calls[c].new[1].reason = "WRONG_PIN"
        /\ ENABLED (commit(c, FALSE) /\ calls'[c] = NoCall /\ verdicts' = verdicts)

\* ---- C27 ----
\* a step in which call c committed and returned
Committed(c) ==
    /\ calls[c].pc = "decided"
    /\ calls'[c].pc = "idle"
    /\ verdicts' # verdicts

EachCommitAppendsItsRow ==
    /\ \A c \in CallIds :
           Committed(c) => AppendsOneLog /\ NewLog = calls[c].new[1]
    /\ Len(access_logs') >= Len(access_logs)
    /\ \A k \in 1..Len(access_logs) : access_logs'[k] = access_logs[k]

\* C27: however the loads, decisions and commits of concurrent access attempts
\* interleave, every attempt that returns has appended exactly its one row to
\* the audit log and no row is lost or written twice, also when the counter
\* written by one attempt overwrites that of another.
C27_OneLogPerConcurrentCall ==
    /\ [](Len(access_logs) = Len(verdicts))
    /\ [][EachCommitAppendsItsRow]_vars

\* two attempts with a wrong PIN for one principal, both loaded before either
\* committed: two rows in the log, and a counter of one
C27_Witness ==
    /\ Len(access_logs) = 2
    /\ Len(verdicts) = 2
    /\ access_logs[1].reason = "WRONG_PIN"
    /\ access_logs[2].reason = "WRONG_PIN"
    /\ access_logs[1].user_id = access_logs[2].user_id
    /\ users[access_logs[1].user_id].failed_pin_attempts = 1

\* ---- C28 ----
\* the row of the principal as stored when call c commits is, in status and
\* pin_hash, the row that call c loaded and decided from
DecidedFromStoredRow(c) ==
    /\ users[calls[c].user_id].status = calls[c].user[1].status
    /\ users[calls[c].user_id].pin_hash = calls[c].user[1].pin_hash

\* C28: an access attempt interleaved with an approval (PIN rotation) or a
\* deactivation of its principal commits no GRANT row after that operation
\* has committed if the GRANT was decided from the status or the pin_hash of
\* before it: load, decision and write of an attempt are one atomic step
\* with respect to the administrator's changes.
C28_EvaluateAtomicWithAdmin ==
    [][\A c \in CallIds :
           Committed(c) /\ NewLog.result = "GRANT" => DecidedFromStoredRow(c)]_vars

====
